---- MODULE Spec2Model ----
(***************************************************************************)
(* Model of the Reliance XR homebridge plugin: the XRApi protocol client   *)
(* (single-flight login, session-expiry retry, bankstate decoding) and the *)
(* RelianceXRPlatform reconciler (startup, poll cycle, change detection,   *)
(* pulsed motion notifications).                                           *)
(*                                                                         *)
(* Node runs one macrotask and the microtasks it queues to completion      *)
(* before the next macrotask, so one action is one macrotask: a network    *)
(* reply arriving, a timer firing, or the host invoking a handler,         *)
(* together with every promise continuation that it wakes.                 *)
(***************************************************************************)
EXTENDS Integers, Sequences, FiniteSets, TLC

\* ------------------------------------------------------------------ bounds
\* request() calls (poll cycles of the interval timer, calls of the accessory
\* layer) that may be in flight
MaxCalls == 2
\* eventPulseMs, in clock ticks
EventPulseTicks == 1
\* largest area index the decoder is applied to
MaxArea == 9
\* largest zone number isZoneOpenFromBanks is applied to
MaxZone == 10
\* longest string _hexByteAt is applied to
MaxLen == 4

\* ----------------------------------------------------------- configuration
AreaIndex == 0
RollerDoorZone == 1
ZoneOpenBank == 0
ZoneOpenWhenSet == TRUE
EnableEventNotifications == TRUE

\* ------------------------------------------------------------------- values
\* A string is a sequence of characters; a hex digit is its value 0..15,
\* and any other number is a character that is no hex digit.
HexDigits == 0..15
\* What parseInt returns when no digit can be parsed.
NaN == -1

Min(a, b) == IF a < b THEN a ELSE b
Max(a, b) == IF a > b THEN a ELSE b

\* A JSON value found under "bankstates": a string, nothing, or a number.
Str(s) == [tag |-> "string", chars |-> s]
Undefined == [tag |-> "undefined", chars |-> << >>]
NotAString == [tag |-> "number", chars |-> << >>]

\* ------------------------------------------------------- bankstate decoding
\* String.prototype.substring(a, b) for 0 <= a <= b
Substring(s, a, b) == SubSeq(s, Min(a, Len(s)) + 1, Min(b, Len(s)))

\* parseInt(hex, 16) of a two-character string: the longest prefix of hex
\* digits is parsed; no leading digit gives NaN.
ParseInt16(hex) ==
  IF hex[1] \notin HexDigits THEN NaN
  ELSE IF hex[2] \notin HexDigits THEN hex[1]
  ELSE 16 * hex[1] + hex[2]

hexByteAt(bankstates, startIndex) ==
  LET hex == Substring(bankstates, startIndex, startIndex + 2)
  IN  IF Len(hex) # 2 THEN 0 ELSE ParseInt16(hex)

\* 1 << (i % 8) for i >= 0
ShiftMask(i) == 2 ^ (i % 8)

\* (byte & mask) !== 0 for a one-bit mask; NaN converts to 0
BitAndNonZero(byte, mask) ==
  IF byte = NaN THEN FALSE ELSE (byte \div mask) % 2 = 1

\* !bankstates
Falsy(bankstates) ==
  bankstates.tag = "undefined" \/ (bankstates.tag = "string" /\ bankstates.chars = << >>)

StpartialOffset == 4
StarmOffset == 6
Stexit1Offset == 8
Stexit2Offset == 10

\* the variant that gives the partial-arm bit precedence over the full-arm bit
decodeStayFirst(chars, areaIndex) ==
  LET mask == ShiftMask(areaIndex)
      isAway == BitAndNonZero(hexByteAt(chars, StarmOffset), mask)
      isStay == BitAndNonZero(hexByteAt(chars, StpartialOffset), mask)
  IN  IF isStay THEN "STAY" ELSE IF isAway THEN "AWAY" ELSE "DISARMED"

\* the variant that reads the arm bytes two characters further on
decodeShifted(chars, areaIndex) ==
  LET mask == ShiftMask(areaIndex)
      isAway == BitAndNonZero(hexByteAt(chars, StarmOffset + 4), mask)
      isStay == BitAndNonZero(hexByteAt(chars, StpartialOffset + 4), mask)
  IN  IF isAway THEN "AWAY" ELSE IF isStay THEN "STAY" ELSE "DISARMED"

\* decodeAreaModeFromBankstates on a string that is not empty
decodeChars(chars, areaIndex) ==
  LET mask == ShiftMask(areaIndex)
      stpartial == hexByteAt(chars, StpartialOffset)
      starm == hexByteAt(chars, StarmOffset)
      stexit1 == hexByteAt(chars, Stexit1Offset)
      stexit2 == hexByteAt(chars, Stexit2Offset)
      isExit == BitAndNonZero(stexit1, mask) \/ BitAndNonZero(stexit2, mask)
      isAway == BitAndNonZero(starm, mask)
      isStay == BitAndNonZero(stpartial, mask)
  IN  IF isAway THEN "AWAY"
      ELSE IF isStay THEN "STAY"
      ELSE IF ~isExit THEN "DISARMED"
      ELSE "DISARMED"

\* decodeAreaModeFromBankstates; "throws" when bankstates has no substring
decodeAreaModeFromBankstates(bankstates, areaIndex) ==
  IF Falsy(bankstates) THEN "UNKNOWN"
  ELSE IF bankstates.tag # "string" THEN "throws"
  ELSE decodeChars(bankstates.chars, areaIndex)

getZoneStateBanks(bankstates) == bankstates

\* isZoneOpenFromBanks; bankstates is a string or falsy here, because
\* decodeAreaModeFromBankstates has already thrown on anything else
isZoneOpenFromBanks(bankstates, zoneNumber, zoneOpenBank, zoneOpenWhenSet) ==
  IF Falsy(bankstates) THEN FALSE
  ELSE LET zi == zoneNumber - 1
           mask == ShiftMask(zi)
           byteStart == 2 * (zi \div 8) + (zoneOpenBank * 0)
           byte == hexByteAt(bankstates.chars, byteStart)
           bitSet == BitAndNonZero(byte, mask)
       IN  IF zoneOpenWhenSet THEN bitSet ELSE ~bitSet

\* ------------------------------------------------------------ form bodies
\* the variant that takes the mask from the byte index and the start from the bit
keyFunctionSwapped(fnum, areaIndex) ==
  << <<"fnum", fnum>>, <<"start", areaIndex % 8>>, <<"mask", 2 ^ (areaIndex \div 8)>> >>

\* keyFunction: the data it hands to request(), as the fields in their order
keyFunctionData(fnum, areaIndex) ==
  << <<"fnum", fnum>>, <<"start", areaIndex \div 8>>, <<"mask", ShiftMask(areaIndex)>> >>

\* request(): the form body of a POST with data, built from this.sess
requestForm(token, data) == << <<"sess", token>> >> \o data

\* -------------------------------------------------------------------- state
VARIABLES
  sess,            \* XRApi.sess: 0 is null, 1 a session token
  loggingIn,       \* XRApi.loggingIn: 0 is null, else the id of the login promise
  loginReqs,       \* ids of the logins whose POST /login.cgi is in flight
  task,            \* task[0]: the didFinishLaunching handler; then the calls in flight.
                   \* tok is the token in the body of the request in flight: 0 none,
                   \* 1 the token that this.sess holds, 2 one that this.sess holds no more
  pollTimer,       \* _pollTimer: TRUE once setInterval has armed it
  cachedMode,      \* RelianceXRPlatform.cachedMode
  cachedDoorOpen,  \* RelianceXRPlatform.cachedDoorOpen: "null", "true" or "false"
  statusFault,     \* the StatusFault characteristic of the security service
  motion,          \* MotionDetected of the event services, by key
  eventResetTimers,\* _eventResetTimers: key -> timeout handle, 0 when the key is absent
  timeouts,        \* the runtime's pending timeouts of pulseMotion: [id, key, rem]
  elapsed,         \* by key: ticks since pulseMotion last ran for it (capped)
  lastBlob,        \* bankstates of the last poll cycle that completed
  emitted,         \* what the last macrotask told the accessory layer
  out,             \* by task: "loginPage" when request() returned a login page in the last macrotask
  cycle,           \* by task: "started", "ok" or "failed" if a poll cycle did so in the last macrotask
  repeat,          \* the last macrotask completed a poll cycle on the same bankstates as the one before
  pulses,          \* by key: how many times pulseMotion ran for it in the last macrotask
  classified,      \* the tasks whose response looksLikeLoginHtml accepted in the last macrotask
  dIn,             \* run of a pure function: its input
  dOut             \* run of a pure function: its result

vars == << sess, loggingIn, loginReqs, task, pollTimer, cachedMode, cachedDoorOpen,
           statusFault, motion, eventResetTimers, timeouts, elapsed, lastBlob,
           emitted, out, cycle, repeat, pulses, classified, dIn, dOut >>

\* the state of the program, which a run of a pure function leaves alone
sysVars == << sess, loggingIn, loginReqs, task, pollTimer, cachedMode, cachedDoorOpen,
              statusFault, motion, eventResetTimers, timeouts, elapsed, lastBlob,
              emitted, out, cycle, repeat, pulses, classified >>

Calls == 1..MaxCalls
Tasks == 0..MaxCalls
Keys == {"alarm", "door"}

IdleTask == [pc |-> "idle", kind |-> "none", retry |-> TRUE, att |-> 0, aw |-> 0, tok |-> 0]
BootTask == [pc |-> "boot", kind |-> "startup", retry |-> TRUE, att |-> 0, aw |-> 0, tok |-> 0]
NoBlob == [tag |-> "none", chars |-> << >>]
NoEvents == [t \in Tasks |-> "none"]
NoInput == [blob |-> << >>, area |-> 0]
NoPulses == [k \in Keys |-> 0]

\* The program state at the start of a macrotask, as one record.
World ==
  [ sess |-> sess, loggingIn |-> loggingIn, loginReqs |-> loginReqs, task |-> task,
    pollTimer |-> pollTimer, cachedMode |-> cachedMode, cachedDoorOpen |-> cachedDoorOpen,
    statusFault |-> statusFault, motion |-> motion, reg |-> eventResetTimers,
    timeouts |-> timeouts, elapsed |-> elapsed, lastBlob |-> lastBlob,
    emitted |-> {}, out |-> NoEvents, cycle |-> NoEvents, repeat |-> FALSE,
    pulses |-> NoPulses, classified |-> {} ]

\* The macrotask ends in state w.
Becomes(w) ==
  /\ sess' = w.sess
  /\ loggingIn' = w.loggingIn
  /\ loginReqs' = w.loginReqs
  /\ task' = w.task
  /\ pollTimer' = w.pollTimer
  /\ cachedMode' = w.cachedMode
  /\ cachedDoorOpen' = w.cachedDoorOpen
  /\ statusFault' = w.statusFault
  /\ motion' = w.motion
  /\ eventResetTimers' = w.reg
  /\ timeouts' = w.timeouts
  /\ elapsed' = w.elapsed
  /\ lastBlob' = w.lastBlob
  /\ emitted' = w.emitted
  /\ out' = w.out
  /\ cycle' = w.cycle
  /\ repeat' = w.repeat
  /\ pulses' = w.pulses
  /\ classified' = w.classified
  /\ UNCHANGED << dIn, dOut >>

\* ------------------------------------------------------------ PulseNotifier
\* a handle no pending timeout has
FreshHandle(ts) == CHOOSE i \in 1..(Cardinality(ts) + 1) : \A t \in ts : t.id # i

\* the variant that leaves the pending timeout in place
clearTimeoutNoop(ts, handle) == ts

clearTimeout(ts, handle) == {t \in ts : t.id # handle}

pulseMotion(w, service, key) ==
  IF ~service THEN w
  ELSE LET existing == w.reg[key]
           kept == IF existing # 0 THEN clearTimeout(w.timeouts, existing) ELSE w.timeouts
           t == FreshHandle(kept)
       IN  [w EXCEPT !.motion[key] = TRUE,
                     !.emitted = @ \cup {<<"MotionDetected", key, TRUE>>} \cup
                                 (IF existing # 0 THEN {<<"clearTimeout", key, TRUE>>} ELSE {}),
                     !.timeouts = kept \cup {[id |-> t, key |-> key, rem |-> EventPulseTicks]},
                     !.reg[key] = t,
                     !.elapsed[key] = 0,
                     !.pulses[key] = @ + 1]

\* the variant that leaves the entry of the key in the registry
resetCallbackKeepsEntry(w, tm) ==
  [w EXCEPT !.motion[tm.key] = FALSE,
            !.emitted = @ \cup {<<"MotionDetected", tm.key, FALSE>>},
            !.timeouts = @ \ {tm},
            !.elapsed[tm.key] = 0]

\* the callback pulseMotion hands to setTimeout
resetCallback(w, tm) ==
  [w EXCEPT !.motion[tm.key] = FALSE,
            !.emitted = @ \cup {<<"MotionDetected", tm.key, FALSE>>},
            !.reg[tm.key] = 0,
            !.timeouts = @ \ {tm},
            !.elapsed[tm.key] = 0]

\* ---------------------------------------------------------- StateReconciler
\* the variant without the early return on an unchanged mode
setModeAlways(w, mode) ==
  LET w1 == pulseMotion([w EXCEPT !.cachedMode = mode], EnableEventNotifications, "alarm")
  IN  [w1 EXCEPT !.statusFault = "NO_FAULT",
                 !.emitted = @ \cup {<<"SecuritySystemCurrentState", mode>>,
                                     <<"SecuritySystemTargetState", mode>>,
                                     <<"StatusFault", "NO_FAULT">>}]

setMode(w, mode) ==
  IF mode = w.cachedMode THEN w
  ELSE LET w1 == pulseMotion([w EXCEPT !.cachedMode = mode], EnableEventNotifications, "alarm")
       IN  [w1 EXCEPT !.statusFault = "NO_FAULT",
                      !.emitted = @ \cup {<<"SecuritySystemCurrentState", mode>>,
                                          <<"SecuritySystemTargetState", mode>>,
                                          <<"StatusFault", "NO_FAULT">>}]

BoolStr(b) == IF b THEN "true" ELSE "false"

\* the variant that pulses the door key twice
setGarageOpenTwice(w, isOpen) ==
  IF w.cachedDoorOpen = BoolStr(isOpen) THEN w
  ELSE LET w1 == pulseMotion([w EXCEPT !.cachedDoorOpen = BoolStr(isOpen)],
                             EnableEventNotifications, "door")
           w2 == pulseMotion(w1, EnableEventNotifications, "door")
       IN  [w2 EXCEPT !.emitted = @ \cup {<<"CurrentDoorState", BoolStr(isOpen)>>,
                                          <<"TargetDoorState", BoolStr(isOpen)>>}]

setGarageOpen(w, isOpen) ==
  IF w.cachedDoorOpen = BoolStr(isOpen) THEN w
  ELSE LET w1 == pulseMotion([w EXCEPT !.cachedDoorOpen = BoolStr(isOpen)],
                             EnableEventNotifications, "door")
       IN  [w1 EXCEPT !.emitted = @ \cup {<<"CurrentDoorState", BoolStr(isOpen)>>,
                                          <<"TargetDoorState", BoolStr(isOpen)>>}]

\* this.sess is assigned: the requests in flight carry a token it holds no more
Superseded(tasks) ==
  [t \in Tasks |-> IF tasks[t].tok = 1 THEN [tasks[t] EXCEPT !.tok = 2] ELSE tasks[t]]

\* the catch block of pollOnceSafe, in the variant that also forgets the cached mode
pollCatchForgets(w) ==
  [w EXCEPT !.sess = 0,
            !.task = Superseded(@),
            !.cachedMode = "UNKNOWN",
            !.statusFault = "GENERAL_FAULT",
            !.emitted = @ \cup {<<"StatusFault", "GENERAL_FAULT">>}]

\* the catch block of pollOnceSafe, in the variant that keeps the session token
pollCatchKeepsSess(w) ==
  [w EXCEPT !.statusFault = "GENERAL_FAULT",
            !.emitted = @ \cup {<<"StatusFault", "GENERAL_FAULT">>}]

\* the catch block of pollOnceSafe
pollCatch(w) ==
  [w EXCEPT !.sess = 0,
            !.task = Superseded(@),
            !.statusFault = "GENERAL_FAULT",
            !.emitted = @ \cup {<<"StatusFault", "GENERAL_FAULT">>}]

\* the variant in which a failed first poll cycle ends the startup handler
armsAfterOnlyOk(outcome) == outcome = "ok"

\* await this.pollOnceSafe() in the startup handler never throws, so
\* setInterval follows however the first poll cycle ended
armsAfter(outcome) == TRUE

\* pollOnceSafe has settled for task t
pollSettled(w, t, outcome) ==
  LET w1 == [w EXCEPT !.cycle[t] = outcome]
  IN  IF t = 0
      THEN [w1 EXCEPT !.task[t].pc = IF armsAfter(outcome) THEN "done" ELSE "failed",
                      !.task[t].tok = 0,
                      !.pollTimer = armsAfter(outcome)]
      ELSE [w1 EXCEPT !.task[t] = IdleTask]

pollFailed(w, t) == pollSettled(pollCatch(w), t, "failed")

\* pollOnce after status() returned the parsed body
pollOnce(w, t, body) ==
  IF body.json = "null" THEN pollFailed(w, t)
  ELSE LET mode == decodeAreaModeFromBankstates(body.bs, AreaIndex)
       IN  IF mode = "throws" THEN pollFailed(w, t)
           ELSE LET w1 == setMode(w, mode)
                    w2 == IF RollerDoorZone > 0
                          THEN setGarageOpen(w1, isZoneOpenFromBanks(getZoneStateBanks(body.bs),
                                   RollerDoorZone, ZoneOpenBank, ZoneOpenWhenSet))
                          ELSE w1
                    w3 == [w2 EXCEPT !.repeat = (w.lastBlob = body.bs), !.lastBlob = body.bs]
               IN  pollSettled(w3, t, "ok")

\* ----------------------------------------------- SessionStore, ProtocolClient
\* what the panel may answer to POST /login.cgi: an HTML page that carries
\* a session token or not and shows login-page markers or not, or no answer
LoginReplies ==
  [net : {"ok"}, token : {0, 1}, login : BOOLEAN] \cup
  {[net |-> "error", token |-> 0, login |-> FALSE]}

extractSessFromHtml(html) == html.token

looksLikeLoginHtml(text) == text.login

\* bankstates strings the panel reports
BlobAway == << 0,0, 0,0, 0,0, 0,1, 0,0, 0,0 >>
BlobStayOpen == << 0,1, 0,0, 0,1, 0,0, 0,0, 0,0 >>
\* "00000000400100000000"
BlobScenario == << 0,0, 0,0, 0,0, 0,0, 4,0, 0,1, 0,0, 0,0, 0,0, 0,0 >>
PollBlobs == {BlobAway, BlobStayOpen}

\* what the panel may answer to a request: a body that shows login-page
\* markers or not and is no JSON, JSON null, an error object or an object
\* with or without a bankstates member; or no answer
Replies ==
  {[net |-> "error", login |-> FALSE, json |-> "invalid", bs |-> Undefined]} \cup
  {[net |-> "ok", login |-> l, json |-> "invalid", bs |-> Undefined] : l \in BOOLEAN} \cup
  {[net |-> "ok", login |-> FALSE, json |-> j, bs |-> Undefined] : j \in {"null", "error"}} \cup
  {[net |-> "ok", login |-> FALSE, json |-> "object", bs |-> b] :
      b \in {Str(c) : c \in PollBlobs} \cup {Undefined, NotAString}} \cup
  {[net |-> "ok", login |-> TRUE, json |-> "object", bs |-> Str(BlobAway)]}

\* a login id no login in flight has
FreshLogin(w) ==
  CHOOSE i \in 1..(Cardinality(w.loginReqs) + 1) : i \notin w.loginReqs /\ i # w.loggingIn

\* the variant that starts a login of its own whatever is in flight
loginJoinsNever(marker) == FALSE

\* login(): if (this.loggingIn) return this.loggingIn
loginJoins(marker) == marker # 0

\* login() called by task t, which then awaits it at pc
login(w, t, pc) ==
  IF loginJoins(w.loggingIn)
  THEN [w EXCEPT !.task[t].pc = pc, !.task[t].aw = w.loggingIn]
  ELSE LET id == FreshLogin(w)
       IN  [w EXCEPT !.sess = 0,
                     !.loginReqs = @ \cup {id},
                     !.loggingIn = id,
                     !.task = [Superseded(@) EXCEPT ![t].pc = pc, ![t].aw = id]]

\* request(): the fetch of the endpoint, its body built from this.sess
fetch(w, t) ==
  [w EXCEPT !.task[t].pc = "waitResp",
            !.task[t].aw = 0,
            !.task[t].att = @ + 1,
            !.task[t].tok = IF w.sess # 0 THEN 1 ELSE 0]

\* request() from its first line: ensureLoggedIn(), then the fetch
request(w, t) ==
  IF w.sess # 0 THEN fetch(w, t) ELSE login(w, t, "waitLogin")

expectJson(kind) == kind # "raw"

\* request() throws in task t
callFails(w, t) ==
  IF w.task[t].kind \in {"startup", "poll"} THEN pollFailed(w, t)
  ELSE [w EXCEPT !.task[t] = IdleTask]

\* request() returns the body (parsed, or as text) in task t
callReturns(w, t, body) ==
  LET w1 == [w EXCEPT !.out[t] = IF looksLikeLoginHtml(body) THEN "loginPage" ELSE "none"]
  IN  IF w.task[t].kind \in {"startup", "poll"} THEN pollOnce(w1, t, body)
      ELSE [w1 EXCEPT !.task[t] = IdleTask]

\* request() from the text of the response on
requestBody(wIn, t, body) ==
  LET w == IF looksLikeLoginHtml(body) THEN [wIn EXCEPT !.classified = @ \cup {t}] ELSE wIn
  IN  IF looksLikeLoginHtml(body) /\ w.task[t].retry
      THEN [w EXCEPT !.task[t].pc = "sleep", !.task[t].tok = 0]
      ELSE IF ~expectJson(w.task[t].kind) THEN callReturns(w, t, body)
      ELSE IF body.json = "invalid" THEN callFails(w, t)
      ELSE IF body.json = "error" THEN callFails(w, t)
      ELSE callReturns(w, t, body)

\* the variant in which the startup handler goes on after a login that failed
afterLoginGoesOn(w, t, ok) ==
  IF w.task[t].pc = "initLogin"
  THEN request([w EXCEPT !.task[t].pc = "idle", !.cycle[t] = "started"], t)
  ELSE IF ~ok THEN callFails(w, t)
  ELSE IF w.task[t].retry THEN fetch(w, t)
  ELSE request(w, t)

\* the login promise has settled: what task t, which awaited it, does next
afterLogin(w, t, ok) ==
  IF w.task[t].pc = "initLogin"
  THEN IF ok THEN request([w EXCEPT !.task[t].pc = "idle", !.cycle[t] = "started"], t)
       ELSE [w EXCEPT !.task[t].pc = "failed"]
  ELSE IF ~ok THEN callFails(w, t)
  ELSE IF w.task[t].retry THEN fetch(w, t)
  ELSE request(w, t)

RECURSIVE wake(_, _, _, _)
\* every task from t on that awaits login a goes on, in the order of the tasks
wake(w, t, a, ok) ==
  IF t > MaxCalls THEN w
  ELSE IF w.task[t].pc \in {"initLogin", "waitLogin"} /\ w.task[t].aw = a
       THEN wake(afterLogin(w, t, ok), t + 1, a, ok)
       ELSE wake(w, t + 1, a, ok)

\* the variant without login()'s finally
loginSettlesKeepsMarker(w, a, reply) ==
  LET tokenFound == reply.net = "ok" /\ extractSessFromHtml(reply) # 0
      w1 == [w EXCEPT !.loginReqs = @ \ {a},
                      !.sess = IF tokenFound THEN extractSessFromHtml(reply) ELSE @,
                      !.task = IF tokenFound THEN Superseded(@) ELSE @]
  IN  wake(w1, 0, a, tokenFound)

\* the body of the login promise from the response on, then login()'s finally
loginSettles(w, a, reply) ==
  LET tokenFound == reply.net = "ok" /\ extractSessFromHtml(reply) # 0
      w1 == [w EXCEPT !.loginReqs = @ \ {a},
                      !.sess = IF tokenFound THEN extractSessFromHtml(reply) ELSE @,
                      !.task = IF tokenFound THEN Superseded(@) ELSE @,
                      !.loggingIn = 0]
  IN  wake(w1, 0, a, tokenFound)

\* ------------------------------------------------------------------ actions
InitSystem ==
  /\ sess = 0
  /\ loggingIn = 0
  /\ loginReqs = {}
  /\ task = [t \in Tasks |-> IF t = 0 THEN BootTask ELSE IdleTask]
  /\ pollTimer = FALSE
  /\ cachedMode = "UNKNOWN"
  /\ cachedDoorOpen = "null"
  /\ statusFault = "NO_FAULT"
  /\ motion = [k \in Keys |-> FALSE]
  /\ eventResetTimers = [k \in Keys |-> 0]
  /\ timeouts = {}
  /\ elapsed = [k \in Keys |-> 0]
  /\ lastBlob = NoBlob
  /\ emitted = {}
  /\ out = NoEvents
  /\ cycle = NoEvents
  /\ repeat = FALSE
  /\ pulses = NoPulses
  /\ classified = {}

Init ==
  /\ InitSystem
  /\ dIn = NoInput
  /\ dOut = "none"

\* the accessories exist once the startup handler has run setupAccessories
AccessoriesSetUp == task[0].pc \notin {"boot", "initLogin", "failed"}

\* a call takes the first slot that is free
FirstIdle(c) == task[c].pc = "idle" /\ \A d \in Calls : d < c => task[d].pc # "idle"

\* the host emits didFinishLaunching
DidFinishLaunching ==
  /\ task[0].pc = "boot"
  /\ Becomes(login(World, 0, "initLogin"))

\* the interval timer fires
PollTick(p) ==
  /\ pollTimer
  /\ FirstIdle(p)
  /\ Becomes(request([World EXCEPT !.task[p].kind = "poll", !.cycle[p] = "started"], p))

\* HomeKit sets the target state: handleSecurityTargetSet, keyFunction
KeyFunction(c) ==
  /\ AccessoriesSetUp
  /\ FirstIdle(c)
  /\ Becomes(request([World EXCEPT !.task[c].kind = "key"], c))

\* a caller of XRApi asks for the text of a page: request(path, {expectJson: false})
RawRequest(c) ==
  /\ FirstIdle(c)
  /\ Becomes(request([World EXCEPT !.task[c].kind = "raw"], c))

\* the panel answers a login, or the connection fails
LoginReply(a, reply) ==
  /\ a \in loginReqs
  /\ Becomes(loginSettles(World, a, reply))

\* the panel answers a request, or the connection fails
RequestReply(t, reply) ==
  /\ task[t].pc = "waitResp"
  /\ Becomes(IF reply.net = "error" THEN callFails(World, t) ELSE requestBody(World, t, reply))

\* sleep(200) is over: login(), then the request again with retry: false
SleepDone(t) ==
  /\ task[t].pc = "sleep"
  /\ Becomes(login([World EXCEPT !.task[t].retry = FALSE], t, "waitLogin"))

\* a pending timeout of pulseMotion is due and runs
TimerFire(tm) ==
  /\ tm \in timeouts
  /\ tm.rem = 0
  /\ Becomes(resetCallback(World, tm))

\* the clock advances by one tick
Tick ==
  /\ \E tm \in timeouts : tm.rem > 0
  /\ Becomes([World EXCEPT
       !.timeouts = {[tm EXCEPT !.rem = Max(tm.rem - 1, 0)] : tm \in timeouts},
       !.elapsed = [k \in Keys |-> IF motion[k] THEN Min(elapsed[k] + 1, EventPulseTicks) ELSE 0]])

Next ==
  \/ DidFinishLaunching
  \/ \E p \in Calls : PollTick(p)
  \/ \E c \in Calls : KeyFunction(c)
  \/ \E c \in Calls : RawRequest(c)
  \/ \E a \in loginReqs, reply \in LoginReplies : LoginReply(a, reply)
  \/ \E t \in Tasks, reply \in Replies : RequestReply(t, reply)
  \/ \E t \in Tasks : SleepDone(t)
  \/ \E tm \in timeouts : TimerFire(tm)
  \/ Tick

Spec == Init /\ [][Next]_vars

\* the program while the accessory layer makes no call of its own
NextPolling ==
  \/ DidFinishLaunching
  \/ \E p \in Calls : PollTick(p)
  \/ \E a \in loginReqs, reply \in LoginReplies : LoginReply(a, reply)
  \/ \E t \in Tasks, reply \in Replies : RequestReply(t, reply)
  \/ \E t \in Tasks : SleepDone(t)
  \/ \E tm \in timeouts : TimerFire(tm)
  \/ Tick

\* setInterval: the interval timer fires for as long as it is armed. Nothing
\* is assumed of the panel: a reply may never come.
FairSpec == Init /\ [][NextPolling]_vars /\ WF_vars(\E p \in Calls : PollTick(p))

\* setTimeout: time passes, and a timeout that is due runs. Nothing is
\* assumed of the panel or of the interval timer.
PulseSpec ==
  /\ Init
  /\ [][NextPolling]_vars
  /\ WF_vars(Tick)
  /\ \A k \in Keys : WF_vars(\E tm \in timeouts : tm.key = k /\ TimerFire(tm))

\* ------------------------------------------------------------- decoder runs
\* the bytes an arm or exit-delay byte is drawn from, as two hex digits
ByteDigits == { <<0,0>>, <<0,1>>, <<0,2>>, <<4,0>>, <<8,1>>, <<15,15>> }

\* bankstates strings of 12 and more hex characters
DecodeBlobs ==
  { <<0,0,0,0>> \o p \o a \o e1 \o e2 \o tail :
      p \in ByteDigits, a \in ByteDigits, e1 \in ByteDigits, e2 \in ByteDigits,
      tail \in { << >>, <<0,0,0,0,0,0,0,0>> } }
  \cup { BlobScenario \o tail : tail \in { <<15,15>>, <<0,1,2,3>> } }

InitDecode ==
  /\ InitSystem
  /\ dIn \in [blob : DecodeBlobs, area : 0..MaxArea]
  /\ dOut = "none"

\* the decoder is applied to the input
DecodeStep ==
  /\ dOut = "none"
  /\ dOut' = decodeAreaModeFromBankstates(Str(dIn.blob), dIn.area)
  /\ UNCHANGED << sysVars, dIn >>

SpecDecode == InitDecode /\ [][DecodeStep]_vars

\* ---------------------------------------------------------------- zone runs
\* bankstates as pollOnce hands it to isZoneOpenFromBanks: absent, empty,
\* shorter than the byte that is read, or two bytes and more
ZoneBlobs ==
  {Undefined} \cup
  {Str(SubSeq(a \o b, 1, n)) : a \in ByteDigits, b \in ByteDigits, n \in 0..4} \cup
  {Str(<<16, 16, 0, 1>>), Str(<<0, 1, 0, 2, 15, 15>>)}

InitZone ==
  /\ InitSystem
  /\ dIn \in [blob : ZoneBlobs, zone : 1..MaxZone, bank : 0..1]
  /\ dOut = [done |-> FALSE, whenSet |-> FALSE, whenClear |-> FALSE]

\* isZoneOpenFromBanks is applied to the input, once for either polarity
ZoneStep ==
  /\ ~dOut.done
  /\ dOut' = [done |-> TRUE,
              whenSet |-> isZoneOpenFromBanks(dIn.blob, dIn.zone, dIn.bank, TRUE),
              whenClear |-> isZoneOpenFromBanks(dIn.blob, dIn.zone, dIn.bank, FALSE)]
  /\ UNCHANGED << sysVars, dIn >>

SpecZone == InitZone /\ [][ZoneStep]_vars

\* ----------------------------------------------------------------- key runs
\* the function numbers handleSecurityTargetSet sends
KeyFnums == {0, 1, 15}

InitKey ==
  /\ InitSystem
  /\ dIn \in [fnum : KeyFnums, areaIndex : 0..(MaxArea + 8), sess : {1}]
  /\ dOut = [done |-> FALSE, form |-> << >>]

\* keyFunction is applied to the input while this.sess is dIn.sess
KeyStep ==
  /\ ~dOut.done
  /\ dOut' = [done |-> TRUE,
              form |-> requestForm(dIn.sess, keyFunctionData(dIn.fnum, dIn.areaIndex))]
  /\ UNCHANGED << sysVars, dIn >>

SpecKey == InitKey /\ [][KeyStep]_vars

\* ---------------------------------------------------------------- byte runs
\* characters of the strings _hexByteAt is applied to: hex digits and one
\* character that is none
ByteChars == {0, 1, 10, 15, 16}

RECURSIVE StringsUpTo(_)
\* the strings of at most n characters
StringsUpTo(n) ==
  IF n = 0 THEN {<< >>}
  ELSE LET shorter == StringsUpTo(n - 1)
       IN  shorter \cup {Append(s, c) : s \in shorter, c \in ByteChars}

InitByte ==
  /\ InitSystem
  /\ dIn \in [blob : StringsUpTo(MaxLen), at : 0..MaxLen]
  /\ dOut = [done |-> FALSE, value |-> 0]

\* _hexByteAt is applied to the input
ByteStep ==
  /\ ~dOut.done
  /\ dOut' = [done |-> TRUE, value |-> hexByteAt(dIn.blob, dIn.at)]
  /\ UNCHANGED << sysVars, dIn >>

SpecByte == InitByte /\ [][ByteStep]_vars

\* ------------------------------------------------------------------- claims
AwaitsLogin(t) == task[t].pc \in {"initLogin", "waitLogin"}
InCycle(t) == task[t].kind \in {"startup", "poll"} /\ task[t].pc \in {"waitLogin", "waitResp", "sleep"}
Pending(k) == {tm \in timeouts : tm.key = k}
Fault == <<"StatusFault", "GENERAL_FAULT">>

\* C1: login is single-flight. At most one login request is in flight, and
\* every caller that awaits a login awaits that one request, which is the
\* one the in-flight marker names: N callers, one request.
C1_LoginSingleFlight ==
  /\ Cardinality(loginReqs) <= 1
  /\ \A t \in Tasks : AwaitsLogin(t) => loginReqs = {task[t].aw} /\ loggingIn = task[t].aw

\* three callers await one login while there is no session token
C1_Witness ==
  /\ sess = 0
  /\ Cardinality({t \in Tasks : AwaitsLogin(t)}) >= 3

\* C2 as claimed: a call never makes a third attempt, and a call whose retry
\* is answered by a login page does not return that page as its result.
C2_RetrySurfacesLoginPage ==
  \A t \in Tasks : task[t].att <= 2 /\ out[t] # "loginPage"

\* C3: the snapshot changes only in a macrotask that completes a poll cycle,
\* and a macrotask in which a poll cycle fails leaves the snapshot as it was
\* and tells the accessory layer nothing but the fault.
C3_SnapshotOnlyOnSuccess ==
  [][ /\ (cachedMode' # cachedMode \/ cachedDoorOpen' # cachedDoorOpen)
         => \E t \in Tasks : cycle'[t] = "ok"
      /\ (\E t \in Tasks : cycle'[t] = "failed")
         => /\ cachedMode' = cachedMode
            /\ cachedDoorOpen' = cachedDoorOpen
            /\ emitted' \subseteq {Fault}
            /\ motion' = motion
            /\ timeouts' = timeouts ]_vars

\* a poll cycle has failed after the snapshot was filled, and the snapshot stands
C3_Witness ==
  /\ \E t \in Tasks : cycle[t] = "failed"
  /\ cachedMode \in {"AWAY", "STAY", "DISARMED"}
  /\ cachedDoorOpen # "null"

\* C4: a poll cycle that completes on the bankstates the previous completed
\* cycle saw changes neither cached value, pulses nothing and updates nothing.
C4_ReconcilerIdempotent ==
  [][ (repeat' /\ \E t \in Tasks : cycle'[t] = "ok")
      => /\ cachedMode' = cachedMode
         /\ cachedDoorOpen' = cachedDoorOpen
         /\ emitted' = {}
         /\ motion' = motion
         /\ timeouts' = timeouts
         /\ eventResetTimers' = eventResetTimers
         /\ statusFault' = statusFault ]_vars

\* a poll cycle has completed on the same hex string as the one before
C4_Witness ==
  /\ repeat
  /\ \E t \in Tasks : cycle[t] = "ok"
  /\ lastBlob.tag = "string"

\* C5 as claimed: at most one poll cycle is in flight.
C5_PollsNeverOverlap ==
  Cardinality({t \in Tasks : InCycle(t)}) <= 1

\* C6: a key has at most one reset pending, and while one is pending the
\* signal is active and the registry names that timeout; the signal goes
\* inactive only a full pulse duration after the key was last pulsed, and
\* no reset is left pending behind it.
C6_PulseCoalescing ==
  /\ [](\A k \in Keys :
          /\ Cardinality(Pending(k)) <= 1
          /\ \A tm \in Pending(k) : motion[k] /\ eventResetTimers[k] = tm.id)
  /\ [][ \A k \in Keys :
           (motion[k] /\ ~motion'[k])
           => elapsed[k] = EventPulseTicks /\ Pending(k)' = {} ]_vars

\* a key was pulsed again while its reset was pending, after time had passed
C6_Witness ==
  \E k \in Keys :
    /\ <<"clearTimeout", k, TRUE>> \in emitted
    /\ motion[k]
    /\ \E tm \in Pending(k) : tm.rem = EventPulseTicks

\* C7: whenever a poll cycle has failed, the interval timer is armed, stays
\* armed, and a poll cycle is started later.
C7_PollingSurvivesFailure ==
  /\ []((\E t \in Tasks : cycle[t] = "failed") => pollTimer)
  /\ [][pollTimer => pollTimer']_vars
  /\ (\E t \in Tasks : cycle[t] = "failed") ~> (\E p \in Calls : cycle[p] = "started")

\* the first poll cycle has failed
C7_Witness ==
  cycle[0] = "failed" /\ pollTimer

\* C8: a macrotask in which a poll cycle fails ends with no session token and
\* with the fault raised; a poll cycle that the timer starts while there is
\* no token awaits a login before anything is sent, and no request is ever
\* sent without a token.
C8_FailureForcesRelogin ==
  /\ [][ (\E t \in Tasks : cycle'[t] = "failed")
         => sess' = 0 /\ statusFault' = "GENERAL_FAULT" /\ Fault \in emitted' ]_vars
  /\ [][ \A p \in Calls : (cycle'[p] = "started" /\ sess = 0)
         => AwaitsLogin(p)' /\ task'[p].aw \in loginReqs' ]_vars
  /\ [](\A t \in Tasks : task[t].pc = "waitResp" => task[t].tok # 0)

\* after a failed poll cycle the next one awaits a login
C8_Witness ==
  /\ statusFault = "GENERAL_FAULT"
  /\ sess = 0
  /\ \E p \in Calls : cycle[p] = "started" /\ AwaitsLogin(p)

\* bit i mod 8 of the byte written as the hex digits at off + 1 and off + 2
DigitBit(blob, off, i) ==
  LET k == i % 8
  IN  IF k < 4 THEN (blob[off + 2] \div (2 ^ k)) % 2 = 1
      ELSE (blob[off + 1] \div (2 ^ (k - 4))) % 2 = 1

StartsWithScenario(blob) ==
  Len(blob) >= Len(BlobScenario) /\ SubSeq(blob, 1, Len(BlobScenario)) = BlobScenario

\* C9 as claimed: a blob that begins "00000000400100000000" decodes to AWAY
\* for area 0.
C9_ScenarioIsAway ==
  (dOut # "none" /\ dIn.area = 0 /\ StartsWithScenario(dIn.blob)) => dOut = "AWAY"

\* C9, amended: a blob that begins "00000000400100000000" decodes to DISARMED
\* for area 0.
C9_ScenarioIsDisarmed ==
  (dOut # "none" /\ dIn.area = 0 /\ StartsWithScenario(dIn.blob)) => dOut = "DISARMED"

\* the scenario blob has been decoded for area 0
C9_Witness ==
  dOut # "none" /\ dIn.area = 0 /\ dIn.blob = BlobScenario \o <<15,15>>

\* C10: on a blob of 12 or more hex characters the decoder returns AWAY if
\* the area's bit is set in the full-arm byte, else STAY if it is set in the
\* partial-arm byte, else DISARMED, whatever the exit-delay bytes hold.
C10_DecodeTotal ==
  (dOut # "none" /\ Len(dIn.blob) >= 12)
  => /\ dOut \in {"DISARMED", "STAY", "AWAY"}
     /\ dOut = "AWAY" <=> DigitBit(dIn.blob, StarmOffset, dIn.area)
     /\ dOut = "STAY" <=> (~DigitBit(dIn.blob, StarmOffset, dIn.area)
                           /\ DigitBit(dIn.blob, StpartialOffset, dIn.area))

\* both arm bits and an exit-delay bit are set for an area above 7, and the result is AWAY
C10_Witness ==
  /\ dOut = "AWAY"
  /\ dIn.area > 7
  /\ DigitBit(dIn.blob, StarmOffset, dIn.area)
  /\ DigitBit(dIn.blob, StpartialOffset, dIn.area)
  /\ DigitBit(dIn.blob, Stexit1Offset, dIn.area)

\* C11 as claimed: on every blob, absent and empty ones included, the result
\* for the polarity open-when-set is the negation of the result for the
\* polarity open-when-clear.
C11_PolarityRoundTrip ==
  dOut.done => (dOut.whenSet <=> ~dOut.whenClear)

\* C12: the form keyFunction sends begins with the field sess, which holds
\* the session token, and its fields start and mask name the byte and the bit
\* of the area: 8 * start <= areaIndex < 8 * start + 8 and
\* mask = 2 ^ (areaIndex - 8 * start); keyFunction(15, 0) sends mask 1 and
\* start 0, keyFunction(0, 9) sends mask 2 and start 1.
C12_KeyFunctionForm ==
  dOut.done =>
    LET form == dOut.form
        start == form[3][2]
        mask == form[4][2]
    IN  /\ Len(form) = 4
        /\ form[1] = <<"sess", dIn.sess>>
        /\ form[2] = <<"fnum", dIn.fnum>>
        /\ form[3][1] = "start" /\ form[4][1] = "mask"
        /\ 8 * start <= dIn.areaIndex /\ dIn.areaIndex < 8 * start + 8
        /\ mask = 2 ^ (dIn.areaIndex - 8 * start)
        /\ (dIn.fnum = 15 /\ dIn.areaIndex = 0) => (mask = 1 /\ start = 0)
        /\ (dIn.fnum = 0 /\ dIn.areaIndex = 9) => (mask = 2 /\ start = 1)

\* keyFunction(0, 9) has been sent under a session token
C12_Witness ==
  /\ dOut.done
  /\ dIn.fnum = 0 /\ dIn.areaIndex = 9 /\ dIn.sess # 0
  /\ dOut.form[4] = <<"mask", 2>>

\* C13 as claimed: the result is the value of the two hex digits at the
\* offset, and 0 when fewer than two characters are left there or when one
\* of the two is no hex digit.
C13_ByteAtTotal ==
  dOut.done =>
    LET b == dIn.blob
        i == dIn.at
    IN  IF i + 2 <= Len(b) /\ b[i + 1] \in HexDigits /\ b[i + 2] \in HexDigits
        THEN dOut.value = 16 * b[i + 1] + b[i + 2]
        ELSE dOut.value = 0

\* C14: when a login settles, the in-flight marker is cleared and no login
\* is left in flight, and the callers that awaited it share its outcome:
\* either there is a token and each of them has sent its request under it,
\* or there is none and each of them has failed. The marker is set only
\* while the request of its login is in flight, and a caller that needs a
\* login when the marker is clear starts a request of its own.
C14_LoginSharedOutcome ==
  /\ [][ \A a \in loginReqs : a \notin loginReqs' =>
           LET W == {t \in Tasks : AwaitsLogin(t) /\ task[t].aw = a}
           IN  /\ loggingIn' = 0 /\ loginReqs' = {}
               /\ \/ sess' # 0 /\ \A t \in W : task'[t].pc = "waitResp" /\ task'[t].tok = 1
                  \/ sess' = 0 /\ \A t \in W : task'[t].pc \in {"idle", "failed", "done"} ]_vars
  /\ [](loggingIn # 0 => loggingIn \in loginReqs)
  /\ [][ \A t \in Tasks : (~AwaitsLogin(t) /\ AwaitsLogin(t)' /\ loggingIn = 0)
           => loginReqs = {} /\ loginReqs' = {task'[t].aw} /\ sess' = 0 ]_vars

\* two poll cycles awaited one login, which failed, and both have failed
C14_Witness ==
  /\ Cardinality({t \in Tasks : cycle[t] = "failed"}) >= 2
  /\ loggingIn = 0
  /\ sess = 0

\* C15: a macrotask that completes a poll cycle leaves the decoded mode and
\* the decoded door state in the cache; for the mode, if the decoded value
\* differs from the cached one the alarm key is pulsed exactly once and the
\* level state is updated, else neither happens; likewise for the door.
C15_EdgeDetection ==
  [][ (\E t \in Tasks : cycle'[t] = "ok") =>
        LET mode == decodeAreaModeFromBankstates(lastBlob', AreaIndex)
            door == BoolStr(isZoneOpenFromBanks(lastBlob', RollerDoorZone, ZoneOpenBank, ZoneOpenWhenSet))
            levels(name) == {e \in emitted' : e[1] = name}
        IN  /\ cachedMode' = mode
            /\ cachedDoorOpen' = door
            /\ IF mode # cachedMode
               THEN pulses'["alarm"] = 1 /\ levels("SecuritySystemCurrentState") = {<<"SecuritySystemCurrentState", mode>>}
               ELSE pulses'["alarm"] = 0 /\ levels("SecuritySystemCurrentState") = {}
            /\ IF door # cachedDoorOpen
               THEN pulses'["door"] = 1 /\ levels("CurrentDoorState") = {<<"CurrentDoorState", door>>}
               ELSE pulses'["door"] = 0 /\ levels("CurrentDoorState") = {} ]_vars

\* a poll cycle decoded STAY while an earlier mode's pulse was still pending
C15_Witness ==
  /\ \E t \in Tasks : cycle[t] = "ok"
  /\ cachedMode = "STAY"
  /\ pulses["alarm"] = 1
  /\ <<"clearTimeout", "alarm", TRUE>> \in emitted

\* C16 as claimed: once the cached mode is not UNKNOWN it never is again.
C16_NeverBackToUnknown ==
  [][cachedMode # "UNKNOWN" => cachedMode' # "UNKNOWN"]_vars

\* C17 as claimed: a call that ends on a response classified as a login
\* page, sent under the token that this.sess holds, leaves no token; and
\* when the sleep before the re-login is over, the token is gone.
C17_TokenInvalidated ==
  [][ /\ \A t \in classified' : (task'[t].pc # "sleep" /\ task[t].tok = 1) => sess' = 0
      /\ \A t \in Tasks : (task[t].pc = "sleep" /\ task'[t].pc # "sleep") => sess' = 0 ]_vars

\* C18: for either key, always later the signal is inactive or the key is
\* pulsed again; the registry holds an entry for a key exactly while a reset
\* is pending for it, and when the reset runs the entry is gone and the
\* signal inactive; a macrotask that pulses one key and not the other leaves
\* the other key's signal, timeout and entry as they were.
C18_EveryPulseResets ==
  /\ \A k \in Keys : []<>(~motion[k] \/ pulses[k] > 0)
  /\ [](\A k \in Keys : eventResetTimers[k] # 0 <=> Pending(k) # {})
  /\ [][ \A k \in Keys : (Pending(k) # {} /\ Pending(k)' = {})
           => eventResetTimers'[k] = 0 /\ ~motion'[k] ]_vars
  /\ [][ \A k \in Keys, j \in Keys : (pulses'[k] > 0 /\ pulses'[j] = 0)
           => /\ motion'[j] = motion[j]
              /\ Pending(j)' = Pending(j)
              /\ eventResetTimers'[j] = eventResetTimers[j] ]_vars

\* the reset of the door key has run while a reset of the alarm key is pending
C18_Witness ==
  /\ <<"MotionDetected", "door", FALSE>> \in emitted
  /\ eventResetTimers["door"] = 0
  /\ motion["alarm"]
  /\ Pending("alarm") # {}

\* C19 as claimed: after a macrotask that completes a poll cycle the fault
\* indicator is NO_FAULT.
C19_FaultFollowsPoll ==
  \A t \in Tasks : cycle[t] = "ok" => statusFault = "NO_FAULT"

\* C20: the interval timer is armed only when the startup handler is done,
\* and it is armed in the macrotask that settles the first poll cycle; the
\* first poll cycle starts in the macrotask in which the initial login
\* succeeds; a startup handler that has failed stays failed, the timer is
\* not armed, and no task is a poll cycle.
C20_StartupGating ==
  /\ [](pollTimer => task[0].pc = "done")
  /\ [][ (pollTimer' /\ ~pollTimer) => cycle'[0] \in {"ok", "failed"} ]_vars
  /\ [][ cycle'[0] = "started" => (task[0].pc = "initLogin" /\ sess' # 0) ]_vars
  /\ [][ task[0].pc = "failed" => task'[0].pc = "failed" ]_vars
  /\ [](task[0].pc = "failed"
         => /\ ~pollTimer
            /\ \A t \in Tasks : task[t].kind # "poll" /\ cycle[t] = "none")

\* the initial login has failed, and a later caller has logged in and sent its request
C20_Witness ==
  /\ task[0].pc = "failed"
  /\ sess # 0
  /\ \E c \in Calls : task[c].pc = "waitResp"

====
